---- MODULE Spec2Model ----
(***************************************************************************)
(* Model of torch_xla/experimental/xla_sharded_tensor.py: the sharded      *)
(* tensor handle (XLAShardedTensor), its constructor `new`, the `size`     *)
(* property, the `no_dispatch` context manager and the dispatch hook       *)
(* `__torch__dispatch__` with its leaf transforms `unwrap` and `wrap`.     *)
(*                                                                         *)
(* Python values are records tagged by field k:                            *)
(*   "None"   the None object                                              *)
(*   "Unset"  an attribute or slot that was never assigned (reading it     *)
(*            raises AttributeError)                                       *)
(*   "T"      a plain torch.Tensor (object identity = data and gen)        *)
(*   "H"      a reference to an XLAShardedTensor object of the heap        *)
(*   "N"      a non-tensor leaf (a number)                                 *)
(*   "list"   a list or tuple node, items a sequence of trees              *)
(*   "dict"   a dict node, items a sequence of [key, val] in insertion     *)
(*            order                                                        *)
(***************************************************************************)
EXTENDS Integers, Sequences, FiniteSets, TLC

VARIABLES heap, made, excluded, outer, stack, ret

vars == <<heap, made, excluded, outer, stack, ret>>

\* ---------------------------------------------------------------- bounds
MaxHandles == 2
MaxDepth == 2
MaxInnerOps == 1

\* ---------------------------------------------------------------- values
None == [k |-> "None"]
Unset == [k |-> "Unset"]
Num(n) == [k |-> "N", v |-> n]
HRef(i) == [k |-> "H", ref |-> i]
Tensor(d, s, rg) == [k |-> "T", data |-> d, shape |-> s, requires_grad |-> rg, gen |-> 0]
List(items) == [k |-> "list", items |-> items]
Dict(items) == [k |-> "dict", items |-> items]
Item(key, val) == [key |-> key, val |-> val]

T1 == Tensor("a", <<8, 10>>, FALSE)
T2 == Tensor("b", <<3>>, TRUE)
Tensors == {T1, T2}
N7 == Num(7)

\* elem.detach(): a new tensor object on the same data that does not track
\* gradients.
detach(t) == [t EXCEPT !.requires_grad = FALSE, !.gen = t.gen + 1]

\* isinstance(elem, XLAShardedTensor) / isinstance(elem, torch.Tensor); the
\* handle class derives from torch.Tensor.
IsShardedTensor(elem) == elem.k = "H"
IsTensor(elem) == elem.k \in {"T", "H"}
IsNode(t) == t.k \in {"list", "dict"}

\* ------------------------------------------------------- class attributes
\* Class-level default of XLAShardedTensor.local_shards.
local_shards == None

\* Whether the attribute was assigned on the instance (attrs holds the
\* names of the slot and instance attributes that were).
HasAttr(h, name) == name \in h.attrs

\* Attribute lookup of local_shards on an instance: the instance attribute
\* when one was assigned, else the class attribute.
LocalShards(h) == IF HasAttr(h, "local_shards") THEN h.local_shards ELSE local_shards

\* ------------------------------------------------------------ constructor
\* Mutant of new: detaches by elem's own requires_grad, not the requested
\* one.
new_detachByElem(elem, mesh_shape, partition_spec, rg) ==
  [shape |-> elem.shape,
   requires_grad |-> rg,
   base |-> None,
   global_tensor |-> IF elem.requires_grad THEN detach(elem) ELSE elem,
   mesh_shape |-> mesh_shape,
   partition_spec |-> partition_spec,
   local_shards |-> Unset,
   attrs |-> {"global_tensor", "mesh_shape", "partition_spec"}]

\* Mutant of new: gives the instance an (empty) shard list of its own.
new_emptyShards(elem, mesh_shape, partition_spec, rg) ==
  [shape |-> elem.shape,
   requires_grad |-> rg,
   base |-> None,
   global_tensor |-> IF rg THEN detach(elem) ELSE elem,
   mesh_shape |-> mesh_shape,
   partition_spec |-> partition_spec,
   local_shards |-> List(<<>>),
   attrs |-> {"global_tensor", "mesh_shape", "partition_spec", "local_shards"}]

\* XLAShardedTensor.new(cls, elem, mesh_shape, partition_spec,
\* requires_grad=rg): the wrapper r takes elem's size and the requested
\* requires_grad; global_tensor is elem.detach() when r.requires_grad.
new(elem, mesh_shape, partition_spec, rg) ==
  [shape |-> elem.shape,
   requires_grad |-> rg,
   base |-> None,
   global_tensor |-> IF rg THEN detach(elem) ELSE elem,
   mesh_shape |-> mesh_shape,
   partition_spec |-> partition_spec,
   local_shards |-> Unset,
   attrs |-> {"global_tensor", "mesh_shape", "partition_spec"}]

\* XLAShardedTensor(elem), the class called with one positional argument as
\* wrap does. The class defines neither __new__ nor __init__ (`new` is a
\* static method of another name), so the inherited tensor constructor
\* builds the instance over elem and nothing assigns the slot
\* global_tensor, mesh_shape or partition_spec.
XLAShardedTensor(elem) ==
  [shape |-> elem.shape,
   requires_grad |-> FALSE,
   base |-> elem,
   global_tensor |-> Unset,
   mesh_shape |-> Unset,
   partition_spec |-> Unset,
   local_shards |-> Unset,
   attrs |-> {}]

\* Mutant of size: the shape of one shard (each sharded axis divided by the
\* extent of its mesh axis).
size_ofShard(h) ==
  IF ~HasAttr(h, "global_tensor") THEN Unset
  ELSE [i \in 1..Len(h.global_tensor.shape) |->
          IF h.partition_spec[i] = None THEN h.global_tensor.shape[i]
          ELSE h.global_tensor.shape[i] \div h.mesh_shape[h.partition_spec[i].v + 1]]

\* The size property: self.global_tensor.size(); Unset when the read of
\* global_tensor raises AttributeError.
size(h) == IF HasAttr(h, "global_tensor") THEN h.global_tensor.shape ELSE Unset

\* ------------------------------------------------------------ tree_map
RECURSIVE Flatten(_)
RECURSIVE FlattenSeq(_)
\* tree_flatten: the leaves of a tree in traversal order.
Flatten(t) ==
  IF t.k = "list" THEN FlattenSeq(t.items)
  ELSE IF t.k = "dict" THEN FlattenSeq([i \in 1..Len(t.items) |-> t.items[i].val])
  ELSE <<t>>
FlattenSeq(ts) ==
  IF ts = <<>> THEN <<>> ELSE Flatten(Head(ts)) \o FlattenSeq(Tail(ts))

TensorLeaves(t) == SelectSeq(Flatten(t), IsTensor)

\* unwrap(elem) of the dispatch hook, reading the heap hp.
unwrap(hp, elem) ==
  IF IsShardedTensor(elem) THEN hp[elem.ref].global_tensor ELSE elem

RECURSIVE UnwrapTree(_, _)
\* tree_map(unwrap, t)
UnwrapTree(hp, t) ==
  IF t.k = "list"
    THEN List([i \in 1..Len(t.items) |-> UnwrapTree(hp, t.items[i])])
  ELSE IF t.k = "dict"
    THEN Dict([i \in 1..Len(t.items) |->
                 Item(t.items[i].key, UnwrapTree(hp, t.items[i].val))])
  ELSE unwrap(hp, t)

\* A read of an unassigned global_tensor raises AttributeError inside
\* tree_map(unwrap, t).
UnwrapRaises(hp, t) ==
  \E i \in 1..Len(Flatten(t)) : unwrap(hp, Flatten(t)[i]) = Unset

\* wrap(elem) of the dispatch hook; ref is the heap address of the object
\* XLAShardedTensor(elem) it allocates for a tensor leaf.
wrap(elem, ref) == IF IsTensor(elem) THEN HRef(ref) ELSE elem

RECURSIVE WrapTree(_, _)
\* tree_map(wrap, t), the handles allocated from address nxt on, in leaf
\* order.
WrapTree(t, nxt) ==
  IF t.k = "list"
    THEN List([i \in 1..Len(t.items) |->
                 WrapTree(t.items[i],
                          nxt + Len(TensorLeaves(List(SubSeq(t.items, 1, i - 1)))))])
  ELSE IF t.k = "dict"
    THEN Dict([i \in 1..Len(t.items) |->
                 Item(t.items[i].key,
                      WrapTree(t.items[i].val,
                               nxt + Len(TensorLeaves(Dict(SubSeq(t.items, 1, i - 1))))))])
  ELSE wrap(t, nxt)

\* The objects tree_map(wrap, t) allocates, in leaf order.
WrapAlloc(t) ==
  [i \in 1..Len(TensorLeaves(t)) |-> XLAShardedTensor(TensorLeaves(t)[i])]

\* ------------------------------------------------------------ no_dispatch
\* torch._C._DisableTorchDispatch(): the guard object remembers the
\* thread's exclusion state and excludes the Python dispatch key.
Guard(prev) == [k |-> "Guard", prev |-> prev]
\* Mutant of DisableTorchDispatch: the guard excludes nothing.
DisableTorchDispatch_noop(excl) == excl
DisableTorchDispatch(excl) == TRUE

\* Mutant of ReleaseGuard: the guard is dropped without restoring the state.
ReleaseGuard_keep(guard, excl, exc) == excl
\* Mutant of ReleaseGuard: no finally clause, the guard is released on
\* normal exit only.
ReleaseGuard_noFinally(guard, excl, exc) == IF exc = None THEN guard.prev ELSE excl

\* no_dispatch's finally clause, `del guard`: the guard's destructor
\* restores the state it remembered; it runs whether the body returned
\* (exc = None) or raised.
ReleaseGuard(guard, excl, exc) == guard.prev

\* Whether the engine offers a tensor operation to the dispatch hook. The
\* model takes the configuration the source names for the guard
\* (enable_python_mode), in which every tensor operation is offered to the
\* hook unless the Python dispatch key is excluded.
Intercepts(excl) == ~excl

\* ------------------------------------------------------------ inputs
FuncErrors == {"RuntimeError", "ValueError"}
Funcs == {"aten.add"}
Exc(type, by) == [k |-> "Exc", type |-> type, by |-> by]

MeshShape == <<4, 2>>
\* Partition specs meeting the constructor's documented precondition: one
\* entry per axis of elem, each None or an index into the mesh.
PartitionSpecs(elem, mesh) ==
  [1..Len(elem.shape) -> {None} \cup {Num(i - 1) : i \in 1..Len(mesh)}]

NewInput(elem, mesh, spec, rg) ==
  [elem |-> elem, mesh_shape |-> mesh, partition_spec |-> spec, requires_grad |-> rg]

\* Every tensor with every valid partition spec, with and without gradient
\* tracking.
AllNewInputs ==
  UNION {{NewInput(elem, MeshShape, spec, rg) :
            spec \in PartitionSpecs(elem, MeshShape), rg \in BOOLEAN} :
         elem \in Tensors}

\* The annotations the dispatch scenarios start from: the 8x10 tensor
\* sharded row-wise, and a gradient-tracking handle.
FewNewInputs ==
  {NewInput(T1, MeshShape, <<Num(0), None>>, FALSE),
   NewInput(T2, MeshShape, <<None>>, TRUE)}

RefSet == {HRef(i) : i \in 1..Len(heap)}

\* Positional operand trees (tuples).
ArgTrees ==
  {List(<<>>)}
  \cup {List(<<h>>) : h \in RefSet}
  \cup {List(<<T1, h>>) : h \in RefSet}
  \cup {List(<<List(<<h, N7>>), T2>>) : h \in RefSet}
  \cup {List(<<Dict(<<Item("k", h)>>)>>) : h \in RefSet}

\* Keyword operand trees; None is the default of an omitted kwargs.
KwargTrees ==
  {None, Dict(<<>>), Dict(<<Item("alpha", N7)>>)}
  \cup {Dict(<<Item("alpha", HRef(i))>>) : i \in {Len(heap)} \ {0}}

\* What the underlying operation may return for the operands it was given:
\* a tensor, a non-tensor, containers of both, or one of its operands.
ResultTrees(uargs) ==
  {T1, N7, List(<<T2, N7>>), Dict(<<Item("out", T1)>>), List(<<List(<<T1>>), T2>>)}
  \cup {uargs.items[i] : i \in {j \in 1..Len(uargs.items) : ~IsNode(uargs.items[j])}}

\* ------------------------------------------------------------ frames
Top == stack[Len(stack)]
SetTop(f) == [stack EXCEPT ![Len(stack)] = f]
Frame(func, args, kwargs) ==
  [pc |-> "enter", func |-> func, args |-> args, kwargs |-> kwargs,
   entryExcluded |-> excluded, heap0 |-> heap, guard |-> None,
   uargs |-> None, ukwargs |-> None, ncalls |-> 0, called |-> None,
   innerOps |-> 0, fres |-> None, raised |-> None, exc |-> None, rs |-> None]

\* ------------------------------------------------------------ state machine
Init ==
  /\ heap = <<>>
  /\ made = <<>>
  /\ excluded = FALSE
  /\ outer = None
  /\ stack = <<>>
  /\ ret = None

\* A caller annotates a tensor: XLAShardedTensor.new(cls, elem, mesh, spec,
\* requires_grad=rg), its operands drawn from inputs.
ConstructFrom(inputs) ==
  /\ stack = <<>>
  /\ outer = None
  /\ Len(heap) < MaxHandles
  /\ \E in \in inputs :
       /\ heap' = Append(heap, new(in.elem, in.mesh_shape, in.partition_spec,
                                   in.requires_grad))
       /\ made' = Append(made, [by |-> "new"] @@ in)
  /\ ret' = [k |-> "New", ref |-> Len(heap) + 1]
  /\ UNCHANGED <<excluded, outer, stack>>

Construct == ConstructFrom(FewNewInputs)

Annotate == ConstructFrom(AllNewInputs)

\* A caller reads h.size.
Size ==
  /\ stack = <<>>
  /\ outer = None
  /\ \E i \in 1..Len(heap) :
       ret' = [k |-> "Size", ref |-> i, value |-> size(heap[i])]
  /\ UNCHANGED <<heap, made, excluded, outer, stack>>

\* The caller's own `with no_dispatch():` scope around a use of the hook.
OuterEnter ==
  /\ stack = <<>>
  /\ outer = None
  /\ outer' = Guard(excluded)
  /\ excluded' = DisableTorchDispatch(excluded)
  /\ ret' = None
  /\ UNCHANGED <<heap, made, stack>>

OuterExit ==
  /\ stack = <<>>
  /\ outer # None
  /\ excluded' = ReleaseGuard(outer, excluded, None)
  /\ outer' = None
  /\ ret' = None
  /\ UNCHANGED <<heap, made, stack>>

\* __torch__dispatch__(cls, func, types, args, kwargs) is entered. The
\* class method is modelled as called under the name the source gives it,
\* whoever the caller is.
Call ==
  /\ stack = <<>>
  /\ \E func \in Funcs, args \in ArgTrees, kwargs \in KwargTrees :
       stack' = <<Frame(func, args, kwargs)>>
  /\ ret' = None
  /\ UNCHANGED <<heap, made, excluded, outer>>

\* `with no_dispatch():` acquires the guard.
NoDispatchEnter ==
  /\ stack # <<>>
  /\ Top.pc = "enter"
  /\ stack' = SetTop([Top EXCEPT !.pc = "args", !.guard = Guard(excluded)])
  /\ excluded' = DisableTorchDispatch(excluded)
  /\ UNCHANGED <<heap, made, outer, ret>>

\* The call's operands are evaluated: tree_map(unwrap, args), then
\* tree_map(unwrap, kwargs), then the ** expansion, which needs a mapping.
UnwrapOperands ==
  /\ stack # <<>>
  /\ Top.pc = "args"
  /\ stack' = SetTop(
       IF UnwrapRaises(heap, Top.args) \/ UnwrapRaises(heap, Top.kwargs)
         THEN [Top EXCEPT !.pc = "finally", !.exc = Exc("AttributeError", "unwrap")]
       ELSE IF UnwrapTree(heap, Top.kwargs).k # "dict"
         THEN [Top EXCEPT !.pc = "finally", !.exc = Exc("TypeError", "call"),
                          !.uargs = UnwrapTree(heap, Top.args),
                          !.ukwargs = UnwrapTree(heap, Top.kwargs)]
       ELSE [Top EXCEPT !.pc = "invoke",
                        !.uargs = UnwrapTree(heap, Top.args),
                        !.ukwargs = UnwrapTree(heap, Top.kwargs)])
  /\ UNCHANGED <<heap, made, excluded, outer, ret>>

\* func(*uargs, **ukwargs) is called.
InvokeFunc ==
  /\ stack # <<>>
  /\ Top.pc = "invoke"
  /\ stack' = SetTop([Top EXCEPT !.pc = "running",
                                 !.ncalls = Top.ncalls + 1,
                                 !.called = [func |-> Top.func, args |-> Top.uargs,
                                             kwargs |-> Top.ukwargs]])
  /\ UNCHANGED <<heap, made, excluded, outer, ret>>

\* func's implementation performs a tensor operation on its operands. The
\* engine offers it to the hook unless interception is suspended; the hook,
\* when entered, runs on func's operands.
InnerOp ==
  /\ stack # <<>>
  /\ Top.pc = "running"
  /\ Top.innerOps < MaxInnerOps
  /\ stack' =
       IF Intercepts(excluded) /\ Len(stack) < MaxDepth
         THEN Append(SetTop([Top EXCEPT !.innerOps = Top.innerOps + 1]),
                     Frame(Top.func, Top.uargs, Top.ukwargs))
         ELSE SetTop([Top EXCEPT !.innerOps = Top.innerOps + 1])
  /\ UNCHANGED <<heap, made, excluded, outer, ret>>

\* func returns a result tree.
FuncReturn ==
  /\ stack # <<>>
  /\ Top.pc = "running"
  /\ \E r \in ResultTrees(Top.uargs) :
       /\ Len(heap) + Len(TensorLeaves(r)) <= MaxHandles
       /\ stack' = SetTop([Top EXCEPT !.pc = "wrap", !.fres = r])
  /\ UNCHANGED <<heap, made, excluded, outer, ret>>

\* func raises.
FuncRaise ==
  /\ stack # <<>>
  /\ Top.pc = "running"
  /\ \E e \in FuncErrors :
       stack' = SetTop([Top EXCEPT !.pc = "finally", !.raised = Exc(e, "func"),
                                      !.exc = Exc(e, "func")])
  /\ UNCHANGED <<heap, made, excluded, outer, ret>>

\* rs = tree_map(wrap, <func's result>), still inside the with block.
WrapResult ==
  /\ stack # <<>>
  /\ Top.pc = "wrap"
  /\ heap' = heap \o WrapAlloc(Top.fres)
  /\ made' = made \o [i \in 1..Len(TensorLeaves(Top.fres)) |->
                        [by |-> "wrap", elem |-> TensorLeaves(Top.fres)[i]]]
  /\ stack' = SetTop([Top EXCEPT !.pc = "finally",
                                 !.rs = WrapTree(Top.fres, Len(heap) + 1)])
  /\ UNCHANGED <<excluded, outer, ret>>

\* The with block is left, normally or by an exception: no_dispatch's
\* finally clause runs.
NoDispatchExit ==
  /\ stack # <<>>
  /\ Top.pc = "finally"
  /\ excluded' = ReleaseGuard(Top.guard, excluded, Top.exc)
  /\ stack' = SetTop([Top EXCEPT !.pc = "exit", !.guard = None])
  /\ UNCHANGED <<heap, made, outer, ret>>

\* `return rs`, or the exception leaves the hook.
Return ==
  /\ stack # <<>>
  /\ Top.pc = "exit"
  /\ ret' = [k |-> "Outcome", func |-> Top.func, args |-> Top.args,
             kwargs |-> Top.kwargs,
             status |-> IF Top.exc = None THEN "ok" ELSE "error",
             value |-> Top.rs, exc |-> Top.exc, ncalls |-> Top.ncalls,
             called |-> Top.called, fres |-> Top.fres, raised |-> Top.raised,
             innerOps |-> Top.innerOps,
             excludedBefore |-> Top.entryExcluded, excludedAfter |-> excluded,
             heapBefore |-> Top.heap0]
  /\ stack' = SubSeq(stack, 1, Len(stack) - 1)
  /\ UNCHANGED <<heap, made, excluded, outer>>

Next ==
  \/ Construct
  \/ Size
  \/ OuterEnter
  \/ OuterExit
  \/ Call
  \/ NoDispatchEnter
  \/ UnwrapOperands
  \/ InvokeFunc
  \/ InnerOp
  \/ FuncReturn
  \/ FuncRaise
  \/ WrapResult
  \/ NoDispatchExit
  \/ Return

Spec == Init /\ [][Next]_vars

\* The annotation scenarios: construction over every input, and the size
\* query.
NextNew ==
  \/ Annotate
  \/ Size

SpecNew == Init /\ [][NextNew]_vars

\* ================================================================ claims
RECURSIVE Skeleton(_)
\* The nesting structure of a tree: its containers and keys, leaves erased.
Skeleton(t) ==
  IF t.k = "list" THEN List([i \in 1..Len(t.items) |-> Skeleton(t.items[i])])
  ELSE IF t.k = "dict"
    THEN Dict([i \in 1..Len(t.items) |-> Item(t.items[i].key, Skeleton(t.items[i].val))])
  ELSE [k |-> "leaf"]

IsOutcome == ret.k = "Outcome"
InsideWith == {"args", "invoke", "running", "wrap", "finally"}

\* C1: for every func and every operand tree (args, kwargs) of handles,
\* plain tensors and non-tensors, the dispatch hook calls func once, on the
\* tree in which each handle is replaced by its global_tensor and every
\* other leaf is unchanged, and, when func returns, returns a tree of the
\* same structure as func's result in which every tensor leaf is a handle
\* and every other leaf is unchanged.
C1_DispatchUnwrapsAndRewraps ==
  (IsOutcome /\ ret.kwargs.k = "dict") =>
    /\ ret.ncalls = 1
    /\ ret.called = [func |-> ret.func,
                     args |-> UnwrapTree(ret.heapBefore, ret.args),
                     kwargs |-> UnwrapTree(ret.heapBefore, ret.kwargs)]
    /\ \A i \in 1..Len(Flatten(ret.args)) :
         LET a == Flatten(ret.args)[i]
             u == Flatten(ret.called.args)[i]
         IN IF IsShardedTensor(a)
              THEN u = ret.heapBefore[a.ref].global_tensor /\ u.k = "T"
              ELSE u = a
    /\ ret.fres # None =>
         /\ ret.status = "ok"
         /\ Skeleton(ret.value) = Skeleton(ret.fres)
         /\ \A i \in 1..Len(Flatten(ret.fres)) :
              IF IsTensor(Flatten(ret.fres)[i])
                THEN IsShardedTensor(Flatten(ret.value)[i])
                ELSE Flatten(ret.value)[i] = Flatten(ret.fres)[i]

\* C2: interception is suspended for the duration of the with block of a
\* dispatch call and, when the call is about to exit and after it has
\* exited, normally or with an error, the guard is released and the
\* exclusion state is the one the call was entered with.
C2_GuardScopedAndRestored ==
  /\ \A i \in 1..Len(stack) :
       /\ stack[i].pc \in InsideWith => (excluded /\ stack[i].guard # None)
       /\ stack[i].pc = "exit" =>
            (stack[i].guard = None /\ excluded = stack[i].entryExcluded)
  /\ IsOutcome => ret.excludedAfter = ret.excludedBefore

\* Witness of C2: a dispatch call entered with interception on has ended
\* with the error func raised, and interception is on again.
C2_Witness ==
  /\ IsOutcome
  /\ ret.raised # None
  /\ ~ret.excludedBefore
  /\ ~excluded

\* C3: while a dispatch call runs func on the unwrapped operands and rewraps
\* the result, the engine offers no tensor operation to the hook: the hook
\* is never entered again and the nesting depth of hook calls is at most 1.
C3_NoReentry ==
  /\ Len(stack) <= 1
  /\ \A i \in 1..Len(stack) : stack[i].pc \in InsideWith => ~Intercepts(excluded)

\* Witness of C3: func has performed a tensor operation on its operands
\* inside a dispatch call that was entered with interception on.
C3_Witness ==
  /\ Len(stack) = 1
  /\ Top.pc = "running"
  /\ Top.innerOps >= 1
  /\ ~Top.entryExcluded

\* C4: every handle, constructed or rewrapped, carries a mesh_shape and a
\* partition_spec with one entry per axis of its global tensor.
C4_EveryHandleAnnotated ==
  \A i \in 1..Len(heap) :
    /\ HasAttr(heap[i], "mesh_shape")
    /\ HasAttr(heap[i], "partition_spec")
    /\ HasAttr(heap[i], "global_tensor")
    /\ Len(heap[i].partition_spec) = Len(heap[i].global_tensor.shape)

\* C5: an error raised by func leaves the hook unchanged: func was invoked
\* once, the caller gets that error and no result, the guard is released
\* before the error leaves the hook, and no handle has changed.
C5_ErrorPropagates ==
  /\ \A i \in 1..Len(stack) :
       (stack[i].pc = "exit" /\ stack[i].raised # None) =>
         /\ stack[i].guard = None
         /\ excluded = stack[i].entryExcluded
         /\ stack[i].exc = stack[i].raised
  /\ (IsOutcome /\ ret.raised # None) =>
       /\ ret.status = "error"
       /\ ret.exc = ret.raised
       /\ ret.ncalls = 1
       /\ ret.value = None
       /\ ret.excludedAfter = ret.excludedBefore
       /\ heap = ret.heapBefore

\* Witness of C5: func raised ValueError while called with a handle operand
\* unwrapped, and the call has ended.
C5_Witness ==
  /\ IsOutcome
  /\ ret.raised # None
  /\ ret.raised.type = "ValueError"
  /\ \E i \in 1..Len(Flatten(ret.args)) : IsShardedTensor(Flatten(ret.args)[i])

\* C6: unwrap(wrap(x)) = x for a plain tensor x, and
\* wrap(unwrap(h)).global_tensor = h.global_tensor for a handle h.
C6_RoundTrip ==
  \A i \in 1..Len(made) :
    made[i].by = "wrap" =>
      /\ made[i].elem.k = "T" => unwrap(heap, HRef(i)) = made[i].elem
      /\ \A j \in 1..Len(heap) :
           (HasAttr(heap[j], "global_tensor") /\ made[i].elem = unwrap(heap, HRef(j)))
             => heap[i].global_tensor = heap[j].global_tensor

\* C7: construct(t, m, p).size equals t's shape; the size query returns the
\* shape of global_tensor, changes nothing, and returns the same value every
\* time.
C7_SizeState ==
  /\ \A i \in 1..Len(heap) :
       made[i].by = "new" => size(heap[i]) = made[i].elem.shape
  /\ ret.k = "Size" =>
       /\ ret.value = made[ret.ref].elem.shape
       /\ ret.value = heap[ret.ref].global_tensor.shape

C7_SizeStep ==
  (ret'.k = "Size" /\ ret' # ret) =>
    /\ UNCHANGED <<heap, made, excluded, outer, stack>>
    /\ (ret.k = "Size" /\ ret.ref = ret'.ref) => ret'.value = ret.value

C7_SizeIsGlobalShape == []C7_SizeState /\ [][C7_SizeStep]_vars

\* Witness of C7: the size of a gradient-tracking handle over the 8x10
\* tensor, sharded on both axes, was read.
C7_Witness ==
  /\ ret.k = "Size"
  /\ made[ret.ref].requires_grad
  /\ made[ret.ref].partition_spec = <<Num(0), Num(1)>>
  /\ ret.value = <<8, 10>>

\* C8: construction stores a detached, non-tracking tensor on elem's data
\* when gradient tracking is requested and elem itself otherwise, and
\* stores the given mesh_shape and partition_spec.
C8_ConstructionStores ==
  \A i \in 1..Len(heap) :
    made[i].by = "new" =>
      /\ heap[i].mesh_shape = made[i].mesh_shape
      /\ heap[i].partition_spec = made[i].partition_spec
      /\ heap[i].shape = made[i].elem.shape
      /\ heap[i].requires_grad = made[i].requires_grad
      /\ IF made[i].requires_grad
           THEN /\ heap[i].global_tensor # made[i].elem
                /\ heap[i].global_tensor.data = made[i].elem.data
                /\ heap[i].global_tensor.shape = made[i].elem.shape
                /\ ~heap[i].global_tensor.requires_grad
           ELSE heap[i].global_tensor = made[i].elem

\* Witness of C8: a gradient-tracking handle over a tensor that does not
\* track gradients, beside a plain handle over one that does.
C8_Witness ==
  /\ Len(heap) >= 2
  /\ \E i, j \in 1..Len(heap) :
       /\ made[i].requires_grad /\ ~made[i].elem.requires_grad
       /\ ~made[j].requires_grad /\ made[j].elem.requires_grad

\* C9: no step populates local_shards of any handle or changes a field of
\* a handle that exists; handles are only added.
C9_Frame ==
  /\ Len(heap') >= Len(heap)
  /\ \A i \in 1..Len(heap) : heap'[i] = heap[i]
  /\ \A i \in 1..Len(heap') : LocalShards(heap'[i]) = None

C9_HandlesNeverMutated == [][C9_Frame]_vars

\* Witness of C9: a dispatch call over a constructed handle has returned a
\* rewrapped result, a new handle beside the constructed one.
C9_Witness ==
  /\ IsOutcome
  /\ ret.status = "ok"
  /\ Len(ret.heapBefore) >= 1
  /\ made[1].by = "new"
  /\ Len(heap) > Len(ret.heapBefore)
  /\ \E i \in 1..Len(Flatten(ret.args)) : Flatten(ret.args)[i] = HRef(1)

\* C10: a dispatch call with kwargs omitted (None) behaves like one with an
\* empty mapping: func is invoked once with the unwrapped positional
\* operands and no keyword operands, and its rewrapped result is returned.
C10_OmittedKwargs ==
  (IsOutcome /\ ret.kwargs = None /\ ~UnwrapRaises(ret.heapBefore, ret.args)) =>
    /\ ret.ncalls = 1
    /\ ret.called = [func |-> ret.func,
                     args |-> UnwrapTree(ret.heapBefore, ret.args),
                     kwargs |-> Dict(<<>>)]
    /\ ret.exc = None \/ ret.exc = ret.raised

====
